---- MODULE Spec2Model ----
(***************************************************************************)
(* Model of the django-react-test repository:                              *)
(*   - the Button component and the main.jsx bootstrap that mounts it on   *)
(*     DOMContentLoaded (frontend/src/components/Button.jsx, main.jsx),    *)
(*   - the vite build configuration (vite.config.js),                      *)
(*   - the base.html template and the vite configuration printed in the    *)
(*     guide (README).                                                     *)
(*                                                                         *)
(* The React library and the browser are the environment.  createRoot is   *)
(* modelled by the two results the bootstrap distinguishes (a root or a    *)
(* falsy value), root.render by its documented effect on the container,    *)
(* and a second root on a container that already has one (which React      *)
(* leaves undefined) by a choice between replacing and appending.          *)
(***************************************************************************)
EXTENDS Integers, Sequences, FiniteSets, TLC

VARIABLES
    debug,       \* settings.DEBUG, handed to the template by the view
    page,        \* script tags of the rendered <head>; << >> before the view ran
    readyState,  \* document.readyState: "loading" until DOMContentLoaded
    synthetic,   \* DOMContentLoaded events dispatched by a harness
    lost,        \* DOMContentLoaded events dispatched while no listener was registered
    registered,  \* main.jsx has run: its listener is on the document
    anchor,      \* the element document.getElementById("react-root") finds, or NoNode
    nextNode,    \* next fresh element identity
    children,    \* children[n]: child nodes of element n
    rootsOn,     \* rootsOn[n]: ReactDOM.createRoot(n) calls
    rendersOn,   \* rendersOn[n]: root.render calls of roots bound to n
    lookups,     \* document.getElementById calls of the handler
    entryPoint,  \* handler local: result of the last lookup
    root,        \* handler local: result of the last createRoot
    state,       \* outcome of the last handler run
    log,         \* console.error calls
    rendered     \* Button invocations: <<props.text, returned element>>

vars == <<debug, page, readyState, synthetic, lost, registered, anchor, nextNode,
          children, rootsOn, rendersOn, lookups, entryPoint, root, state, log,
          rendered>>

---------------------------------------------------------------------------
(* Bounds *)

MaxReady == 2      \* synthetic DOMContentLoaded events per load
MaxNodes == 5      \* elements with id "react-root" ever created in one load
MaxRenders == 4    \* Button invocations of the component harness

Texts == {"Click me", "", "OK"}

---------------------------------------------------------------------------
(* Button.jsx : the component *)

IconSize == 32

Node(tag, cls, size, text, kids) ==
    [tag |-> tag, cls |-> cls, size |-> size, text |-> text, kids |-> kids]

TextNode(t) == Node("#text", "", 0, t, << >>)

CaretLeft(size) == Node("svg", "CaretLeft", size, "", << >>)

CaretRight(size) == Node("svg", "CaretRight", size, "", << >>)

\* Faulty variant: the prop is dropped and a fixed label is rendered.
ButtonFixedLabel(text) ==
    Node("button", "container", 0, "",
         << CaretLeft(IconSize),
            Node("span", "text", 0, "", << TextNode("Button") >>),
            CaretRight(IconSize) >>)

Button(text) ==
    Node("button", "container", 0, "",
         << CaretLeft(IconSize),
            Node("span", "text", 0, "", << TextNode(text) >>),
            CaretRight(IconSize) >>)

\* StrictMode renders its children and adds no DOM node of its own.
StrictMode(element) == element

RECURSIVE TextContent(_)
RECURSIVE TextOfAll(_)

\* Node.textContent: the concatenated text of the text nodes below a node.
TextContent(n) ==
    IF n.tag = "#text" THEN n.text ELSE TextOfAll(n.kids)

TextOfAll(kids) ==
    IF kids = << >> THEN "" ELSE TextContent(Head(kids)) \o TextOfAll(Tail(kids))

\* How often React invokes a component function per render pass: StrictMode
\* doubles it in the development build, which the dev server serves.
Invocations(text) ==
    IF debug THEN << <<text, Button(text)>>, <<text, Button(text)>> >>
             ELSE << <<text, Button(text)>> >>

---------------------------------------------------------------------------
(* vite.config.js, and the configuration and template the guide prints *)

Url(origin, path) == [origin |-> origin, path |-> path]

NoUrl == Url("", << >>)

\* vite.config.js as committed.
ViteConfig ==
    [input |-> <<".", "src", "main.jsx">>,
     entryFileNames |-> "react-build.js",
     outDir |-> <<"..", "static", "build", "">>,
     emptyOutDir |-> TRUE,
     manifest |-> TRUE,
     origin |-> "http://localhost:8000",
     cors |-> TRUE]

\* The vite config of the guide.
GuideConfig ==
    [input |-> <<".", "src", "main.jsx">>,
     entryFileNames |-> "react-build.js",
     outDir |-> <<"..", "static", "build">>,
     emptyOutDir |-> TRUE,
     manifest |-> TRUE,
     origin |-> "http://localhost:5173",
     cors |-> TRUE]

\* The origin the template's development tags point at.
DevOrigin == "http://localhost:5173"

\* Path normalisation: "." and empty segments vanish, ".." leaves the
\* frontend directory (the paths of the config are relative to it).
RECURSIVE Normalize(_)
Normalize(path) ==
    IF path = << >> THEN << >>
    ELSE IF Head(path) \in {".", "..", ""} THEN Normalize(Tail(path))
    ELSE <<Head(path)>> \o Normalize(Tail(path))

\* Where the dev server serves the entry module, and where the build puts it.
DevEntryPath == Normalize(ViteConfig.input)

BuildArtifactPath == Normalize(ViteConfig.outDir) \o <<ViteConfig.entryFileNames>>

\* {% static 'p' %}: the path below the project's static directory.
Static(path) == Url("", <<"static">> \o path)

\* An attribute as written in the template source: lhs, an optional "=", and
\* a quoted string.
RawAttr(lhs, eq, quoted) == [lhs |-> lhs, eq |-> eq, quoted |-> quoted]

\* HTML attribute parsing: without "=" the quoted text is part of the
\* attribute's name and the attribute has the empty value.
ParseAttr(raw) ==
    IF raw.eq THEN [name |-> raw.lhs, value |-> raw.quoted]
              ELSE [name |-> raw.lhs \o "\"...\"", value |-> NoUrl]

ScriptTag(attrs, inline) == [attrs |-> attrs, inline |-> inline]

\* base.html, the <script> elements of <head>.
BaseTemplate(dbg) ==
    IF dbg
    THEN << ScriptTag(<< RawAttr("type", TRUE, Url("module", << >>)) >>,
                      [imports |-> Url(DevOrigin, <<"@react-refresh">>),
                       preamble |-> TRUE]),
            ScriptTag(<< RawAttr("type", TRUE, Url("module", << >>)),
                         RawAttr("src", TRUE, Url(DevOrigin, <<"src", "main.jsx">>)) >>,
                      [imports |-> NoUrl, preamble |-> FALSE]) >>
    ELSE << ScriptTag(<< RawAttr("src", FALSE, Static(<<"build", "react-build.js">>)) >>,
                      [imports |-> NoUrl, preamble |-> FALSE]) >>

\* The script the guide's "Production Build" section says Django loads.
GuideProductionTag ==
    ScriptTag(<< RawAttr("src", TRUE, Static(<<"build", "react-build.js">>)) >>,
              [imports |-> NoUrl, preamble |-> FALSE])

\* The src attribute of a parsed script element, NoUrl when it has none.
SrcOf(tag) ==
    LET hits == { i \in 1..Len(tag.attrs) : ParseAttr(tag.attrs[i]).name = "src" }
    IN  IF hits = {} THEN NoUrl
        ELSE ParseAttr(tag.attrs[CHOOSE i \in hits : \A j \in hits : i <= j]).value

IsPreamble(tag) == tag.inline.preamble

IsDevScript(tag) == SrcOf(tag) = Url(DevOrigin, DevEntryPath)

IsProdScript(tag) == SrcOf(tag) = Url("", BuildArtifactPath)

\* The page runs main.jsx: from the dev server or from the built artifact.
LoadsBootstrap(p) ==
    \E i \in 1..Len(p) : IsDevScript(p[i]) \/ IsProdScript(p[i])

---------------------------------------------------------------------------
(* main.jsx : the bootstrap *)

NoNode == 0

Nodes == 1..MaxNodes

AnchorId == "react-root"

ErrNoRoot == "Root for React not found"

ErrNoAnchor == "DOMContent not loaded :("

Terminal == {"Mounted", "FailedNoAnchor", "FailedNoRoot"}

\* What ReactDOM.createRoot hands back, as far as `if (!root)` can tell.
RootOutcomes == {"root", "null"}

Init ==
    /\ debug \in BOOLEAN
    /\ page = << >>
    /\ readyState = "loading"
    /\ synthetic = 0
    /\ lost = 0
    /\ registered = FALSE
    /\ anchor = NoNode
    /\ nextNode = 1
    /\ children = [n \in Nodes |-> << >>]
    /\ rootsOn = [n \in Nodes |-> 0]
    /\ rendersOn = [n \in Nodes |-> 0]
    /\ lookups = 0
    /\ entryPoint = NoNode
    /\ root = "none"
    /\ state = "Waiting"
    /\ log = << >>
    /\ rendered = << >>

handlerVars == <<children, rootsOn, rendersOn, lookups, entryPoint, root, state,
                 log, rendered>>

\* views.py index(): render base.html with {"debug": settings.DEBUG}.  The
\* body of the template carries <div id="react-root"></div>.
index ==
    /\ page = << >>
    /\ page' = BaseTemplate(debug)
    /\ anchor' = nextNode
    /\ nextNode' = nextNode + 1
    /\ UNCHANGED <<debug, readyState, synthetic, lost, registered>>
    /\ UNCHANGED handlerVars

\* document.getElementById
GetElementById(id) == IF id = AnchorId THEN anchor ELSE NoNode

\* Faulty variant: the missing anchor goes unreported.
ReportNoAnchorSilent ==
    /\ state' = "FailedNoAnchor"
    /\ root' = "none"
    /\ UNCHANGED <<log, children, rootsOn, rendersOn, rendered>>

\* Faulty variant: the missing anchor is reported and the mount is left pending.
ReportNoAnchorPending ==
    /\ log' = Append(log, ErrNoAnchor)
    /\ state' = "Waiting"
    /\ root' = "none"
    /\ UNCHANGED <<children, rootsOn, rendersOn, rendered>>

\* else { console.error("DOMContent not loaded :("); }
ReportNoAnchor ==
    /\ log' = Append(log, ErrNoAnchor)
    /\ state' = "FailedNoAnchor"
    /\ root' = "none"
    /\ UNCHANGED <<children, rootsOn, rendersOn, rendered>>

\* root.render(<StrictMode><Button text="Click me" /></StrictMode>) on a root
\* bound to e.  The first root of a container replaces the container's
\* content by the rendered tree.  A further root on the same container is
\* undefined in React: the tree replaces the content or is added to it.
Render(e) ==
    LET tree == StrictMode(Button("Click me")) IN
    /\ rendersOn' = [rendersOn EXCEPT ![e] = @ + 1]
    /\ rendered' = rendered \o Invocations("Click me")
    /\ IF rootsOn[e] = 0
       THEN children' = [children EXCEPT ![e] = <<tree>>]
       ELSE \E added \in BOOLEAN :
              children' = [children EXCEPT
                             ![e] = IF added THEN Append(@, tree) ELSE <<tree>>]
    /\ state' = "Mounted"
    /\ UNCHANGED log

\* Faulty variant: the error is logged and control falls through to the render.
ReportNoRootNoReturn(e) ==
    /\ log' = Append(log, ErrNoRoot)
    /\ rendersOn' = [rendersOn EXCEPT ![e] = @ + 1]
    /\ children' = [children EXCEPT ![e] = <<StrictMode(Button("Click me"))>>]
    /\ rendered' = rendered \o Invocations("Click me")
    /\ state' = "Mounted"

\* if (!root) { console.error("Root for React not found"); return; }
ReportNoRoot(e) ==
    /\ log' = Append(log, ErrNoRoot)
    /\ state' = "FailedNoRoot"
    /\ UNCHANGED <<children, rendersOn, rendered>>

\* Faulty variant: the test of the root is inverted.
MountInverted(e) ==
    \E r \in RootOutcomes :
        /\ rootsOn' = [rootsOn EXCEPT ![e] = @ + 1]
        /\ root' = r
        /\ IF r = "root" THEN ReportNoRoot(e) ELSE Render(e)

\* Faulty variant: a second root is created for the render.
MountTwoRoots(e) ==
    \E r \in RootOutcomes :
        /\ rootsOn' = [rootsOn EXCEPT ![e] = @ + (IF r = "null" THEN 1 ELSE 2)]
        /\ root' = r
        /\ IF r = "null" THEN ReportNoRoot(e) ELSE Render(e)

\* const root = ReactDOM.createRoot(entryPoint); if (!root) ...; root.render(...)
Mount(e) ==
    \E r \in RootOutcomes :
        /\ rootsOn' = [rootsOn EXCEPT ![e] = @ + 1]
        /\ root' = r
        /\ IF r = "null" THEN ReportNoRoot(e) ELSE Render(e)

\* The DOMContentLoaded listener of main.jsx.
Handler ==
    LET e == GetElementById("react-root") IN
    /\ lookups' = lookups + 1
    /\ entryPoint' = e
    /\ IF e # NoNode THEN Mount(e) ELSE ReportNoAnchor

\* Faulty variant: the module mounts while it is evaluated, without waiting.
LoadScriptEager ==
    /\ page # << >>
    /\ LoadsBootstrap(page)
    /\ ~registered
    /\ registered' = TRUE
    /\ Handler
    /\ UNCHANGED <<debug, page, readyState, synthetic, lost, anchor, nextNode>>

\* Faulty variant: the module looks at document.readyState and runs the handler at
\* once when the document is past "loading".
LoadScriptReadyCheck ==
    /\ page # << >>
    /\ LoadsBootstrap(page)
    /\ ~registered
    /\ registered' = TRUE
    /\ IF readyState = "loading" THEN UNCHANGED handlerVars ELSE Handler
    /\ UNCHANGED <<debug, page, readyState, synthetic, lost, anchor, nextNode>>

\* The page evaluates main.jsx: document.addEventListener("DOMContentLoaded", ...).
\* Nothing in the module looks at document.readyState, so this may come
\* before or after the event.
LoadScript ==
    /\ page # << >>
    /\ LoadsBootstrap(page)
    /\ ~registered
    /\ registered' = TRUE
    /\ UNCHANGED <<debug, page, readyState, synthetic, lost, anchor, nextNode>>
    /\ UNCHANGED handlerVars

\* Delivery of one DOMContentLoaded event: the listener runs synchronously
\* if it is registered; otherwise the event is gone.
Dispatch ==
    IF registered
    THEN Handler /\ UNCHANGED lost
    ELSE lost' = lost + 1 /\ UNCHANGED handlerVars

\* The browser finishes parsing and fires DOMContentLoaded, once.
DOMContentLoaded ==
    /\ page # << >>
    /\ readyState = "loading"
    /\ readyState' = "interactive"
    /\ Dispatch
    /\ UNCHANGED <<debug, page, synthetic, registered, anchor, nextNode>>

\* A harness dispatches a further DOMContentLoaded event on the document.
DispatchReady ==
    /\ page # << >>
    /\ synthetic < MaxReady
    /\ synthetic' = synthetic + 1
    /\ Dispatch
    /\ UNCHANGED <<debug, page, readyState, registered, anchor, nextNode>>

\* The host document gains an element with id "react-root".
AddAnchor ==
    /\ page # << >>
    /\ anchor = NoNode
    /\ nextNode <= MaxNodes
    /\ anchor' = nextNode
    /\ nextNode' = nextNode + 1
    /\ UNCHANGED <<debug, page, readyState, synthetic, lost, registered>>
    /\ UNCHANGED handlerVars

\* The host document loses its element with id "react-root"; the element
\* keeps its children.
RemoveAnchor ==
    /\ page # << >>
    /\ anchor # NoNode
    /\ anchor' = NoNode
    /\ UNCHANGED <<debug, page, readyState, synthetic, lost, registered, nextNode>>
    /\ UNCHANGED handlerVars

\* A component harness renders <Button text={t} />.
RenderButton(t) ==
    /\ Len(rendered) < MaxRenders
    /\ rendered' = Append(rendered, <<t, Button(t)>>)
    /\ UNCHANGED <<debug, page, readyState, synthetic, lost, registered, anchor,
                   nextNode, children, rootsOn, rendersOn, lookups, entryPoint,
                   root, state, log>>

Next ==
    \/ index
    \/ LoadScript
    \/ DOMContentLoaded
    \/ DispatchReady
    \/ AddAnchor
    \/ RemoveAnchor

Spec == Init /\ [][Next]_vars

\* One page load in a browser: DOMContentLoaded is fired once, by the
\* browser, which does fire it.
NextLoad ==
    \/ index
    \/ LoadScript
    \/ DOMContentLoaded
    \/ AddAnchor
    \/ RemoveAnchor

LoadSpec == Init /\ [][NextLoad]_vars /\ WF_vars(DOMContentLoaded)

\* The component on its own.
NextButton == \E t \in Texts : RenderButton(t)

ButtonSpec == Init /\ [][NextButton]_vars

---------------------------------------------------------------------------
(* Derived quantities *)

RECURSIVE SumOver(_, _)
SumOver(f, S) ==
    IF S = {} THEN 0
    ELSE LET n == CHOOSE m \in S : TRUE IN f[n] + SumOver(f, S \ {n})

CreateRootCalls == SumOver(rootsOn, Nodes)

RenderCalls == SumOver(rendersOn, Nodes)

\* DOMContentLoaded events dispatched so far, the browser's and the harness's.
Events == (IF readyState = "loading" THEN 0 ELSE 1) + synthetic

NothingMounted == \A n \in Nodes : children[n] = << >>

\* The handler runs in this step.
HandlerStep == lookups' = lookups + 1

\* Element n holds exactly the button labelled t.
HoldsOneButton(n, t) ==
    /\ Len(children[n]) = 1
    /\ children[n][1].tag = "button"
    /\ TextContent(children[n][1]) = t

---------------------------------------------------------------------------
(* Properties *)

\* C1: when the anchor exists at the ready signal and createRoot returns a
\* usable root, the mount sequence ends in Mounted with exactly one button
\* subtree below that anchor, whose text is "Click me", and logs no error.
\* Stated for a load whose handler ran once, and for every handler run on an
\* anchor that has no root yet.
C1_MountsOneButton ==
    /\ [](lookups = 1 /\ entryPoint # NoNode /\ root = "root" =>
            /\ state = "Mounted"
            /\ HoldsOneButton(entryPoint, "Click me")
            /\ \A n \in Nodes \ {entryPoint} : children[n] = << >>
            /\ log = << >>)
    /\ [][HandlerStep /\ anchor # NoNode /\ root' = "root" /\ rootsOn[anchor] = 0 =>
            /\ state' = "Mounted"
            /\ children' = [children EXCEPT ![anchor] = <<Button("Click me")>>]
            /\ TextContent(children'[anchor][1]) = "Click me"
            /\ rootsOn'[anchor] = 1
            /\ rendersOn'[anchor] = rendersOn[anchor] + 1
            /\ log' = log]_vars

C1_Witness ==
    /\ lookups = 1
    /\ entryPoint # NoNode
    /\ root = "root"
    /\ state = "Mounted"
    /\ HoldsOneButton(entryPoint, "Click me")

\* C2: when no element with id "react-root" exists at the ready signal, the
\* handler inserts nothing, calls neither createRoot nor render, and records
\* exactly one AnchorNotFound event and no RootCreationFailed event.
C2_NoAnchorLogsOnce ==
    /\ [](lookups = 1 /\ entryPoint = NoNode =>
            /\ state = "FailedNoAnchor"
            /\ log = <<ErrNoAnchor>>
            /\ NothingMounted
            /\ CreateRootCalls = 0
            /\ RenderCalls = 0)
    /\ [][HandlerStep /\ anchor = NoNode =>
            /\ log' = Append(log, ErrNoAnchor)
            /\ ErrNoAnchor # ErrNoRoot
            /\ state' = "FailedNoAnchor"
            /\ (UNCHANGED <<children, rootsOn, rendersOn, rendered>>)]_vars

C2_Witness ==
    /\ lookups = 1
    /\ entryPoint = NoNode
    /\ state = "FailedNoAnchor"
    /\ log = <<ErrNoAnchor>>

\* C3: nothing of the mount sequence (lookup, createRoot, render, log) happens
\* before the first ready event, and evaluating main.jsx only registers the
\* listener.
C3_NothingBeforeReady ==
    /\ [](Events = 0 =>
            /\ lookups = 0
            /\ CreateRootCalls = 0
            /\ RenderCalls = 0
            /\ log = << >>
            /\ NothingMounted
            /\ rendered = << >>
            /\ state = "Waiting")
    /\ [][registered' # registered => (UNCHANGED handlerVars)]_vars

C3_Witness == registered /\ Events = 0 /\ anchor # NoNode

\* C4 as stated: whatever the number of ready events delivered to the
\* listener, createRoot and render are invoked at most once against the
\* anchor and the anchor never holds duplicate button subtrees.
C4_AtMostOncePerLoad ==
    \A n \in Nodes : rootsOn[n] <= 1 /\ rendersOn[n] <= 1 /\ Len(children[n]) <= 1

\* C4 amended: createRoot and render are invoked at most once per ready event
\* delivered to the registered listener, and every delivered event runs the
\* handler; a load with at most one delivered event creates at most one root,
\* renders at most once and leaves at most one button subtree in the anchor.
C4_AtMostOncePerEvent ==
    /\ lookups + lost = Events
    /\ CreateRootCalls <= lookups
    /\ RenderCalls <= CreateRootCalls
    /\ lookups <= 1 => C4_AtMostOncePerLoad

C4_Witness ==
    /\ lookups = 2
    /\ \E n \in Nodes : rootsOn[n] = 2 /\ rendersOn[n] = 2

C6_OneScriptVariant ==
    page # << >> =>
        /\ debug =>
             /\ Len(page) = 2
             /\ IsPreamble(page[1])
             /\ IsDevScript(page[2])
             /\ \A i \in 1..Len(page) : ~IsProdScript(page[i])
        /\ ~debug =>
             /\ Len(page) = 1
             /\ SrcOf(page[1]) = SrcOf(GuideProductionTag)
             /\ IsProdScript(page[1])
             /\ ~IsPreamble(page[1])
             /\ ~IsDevScript(page[1])
        /\ LoadsBootstrap(page)

\* C7 as stated: the dev server origin of the build configuration is the
\* origin the development template loads the entry module and the refresh
\* runtime from (the one the guide's config states), cors is on, the entry is
\* ./src/main.jsx, the output is react-build.js in the static build directory
\* the production script reads.
C7_DevOriginMatches ==
    page # << >> /\ debug =>
        /\ ViteConfig.origin = GuideConfig.origin
        /\ \A i \in 1..Len(page) :
             /\ SrcOf(page[i]) # NoUrl => SrcOf(page[i]).origin = ViteConfig.origin
             /\ page[i].inline.imports # NoUrl =>
                  page[i].inline.imports.origin = ViteConfig.origin
        /\ ViteConfig.cors
        /\ ViteConfig.input = <<".", "src", "main.jsx">>
        /\ ViteConfig.entryFileNames = "react-build.js"
        /\ Url("", BuildArtifactPath) = SrcOf(GuideProductionTag)

\* C8: when the anchor exists and createRoot yields no usable root, the
\* handler records exactly one RootCreationFailed event (not the
\* AnchorNotFound one), does not render, leaves the anchor's children as they
\* were and ends in FailedNoRoot.
C8_NoRootLogsAndStops ==
    /\ [](lookups = 1 /\ entryPoint # NoNode /\ root = "null" =>
            /\ state = "FailedNoRoot"
            /\ log = <<ErrNoRoot>>
            /\ RenderCalls = 0
            /\ NothingMounted)
    /\ [][HandlerStep /\ anchor # NoNode /\ root' = "null" =>
            /\ log' = Append(log, ErrNoRoot)
            /\ ErrNoRoot # ErrNoAnchor
            /\ state' = "FailedNoRoot"
            /\ (UNCHANGED <<children, rendersOn, rendered>>)]_vars

C8_Witness ==
    /\ lookups = 1
    /\ entryPoint # NoNode
    /\ root = "null"
    /\ state = "FailedNoRoot"

\* C9 as stated: Mounted, FailedNoAnchor and FailedNoRoot are terminal: once
\* one is reached no later event -- a further ready signal, the anchor being
\* added or removed -- changes the state, looks the anchor up again, retries
\* the mount or logs again.
C9_TerminalIsFinal ==
    [][(state \in Terminal) => (UNCHANGED handlerVars)]_vars

\* C9 amended: the state is Waiting until the handler first runs and one of
\* Mounted, FailedNoAnchor, FailedNoRoot from then on; adding or removing the
\* anchor afterwards changes nothing of the bootstrap; only a further ready
\* event, delivered to the listener that stays registered, runs the whole
\* sequence again.
C9_TerminalUntilNextEvent ==
    /\ [](lookups = 0 => state = "Waiting")
    /\ [](lookups > 0 => state \in Terminal)
    /\ [][(state \in Terminal) => state' \in Terminal]_vars
    /\ [][(state \in Terminal) /\ Events' = Events => (UNCHANGED handlerVars)]_vars
    /\ [][(state \in Terminal) /\ Events' # Events => HandlerStep /\ registered']_vars

C9_Witness ==
    /\ state = "FailedNoAnchor"
    /\ entryPoint = NoNode
    /\ anchor # NoNode
    /\ lookups = 1

\* C10: main.jsx registers its listener without looking at
\* document.readyState.  When the listener is registered before the ready
\* signal, the signal takes the load to one of Mounted, FailedNoAnchor,
\* FailedNoRoot in one step, and the signal does come; when the signal fired
\* before the listener was registered the handler never runs: the state stays
\* Waiting, nothing is mounted, nothing is logged.
C10_RegistrationMustPrecedeReady ==
    /\ [](lost > 0 =>
            /\ state = "Waiting"
            /\ lookups = 0
            /\ log = << >>
            /\ NothingMounted)
    /\ [][registered /\ readyState = "loading" /\ readyState' # "loading" =>
            HandlerStep /\ state' \in Terminal]_vars
    /\ (registered /\ readyState = "loading") ~> (state \in Terminal)

C10_Witness ==
    /\ lost > 0
    /\ registered
    /\ readyState # "loading"
    /\ anchor # NoNode

====
